---- MODULE Spec2Model ----
(***************************************************************************)
(* A model of the kachery client (src/kachery/core.py): the process-wide   *)
(* config, the local hash cache, the remote server reached over HTTP, and  *)
(* the public operations load_file, store_file, store_object, read_dir and *)
(* set_config.                                                             *)
(*                                                                         *)
(* File contents are named by short strings ("hello", "B", ...); a digest  *)
(* is the pair <<algorithm, content>>, so two contents never collide and   *)
(* a sha1 digest never equals an md5 digest.  Delays are in tenths of a    *)
(* second.  A Python dict is a function whose DOMAIN is its key set, so    *)
(* d['k'] on a missing key is visible as "k" \notin DOMAIN d (KeyError).   *)
(***************************************************************************)
EXTENDS Integers, Sequences, FiniteSets, TLC

\* The most consecutive connection failures the network produces in a call.
MaxFails == 3

None == "None"
NoHash == <<"", "">>
EmptyDict == [k \in {} |-> TRUE]

\* ['sha1', 'md5'], the order in which the source enumerates algorithms.
AlgList == <<"sha1", "md5">>

RetryDelays_mut == <<5, 2>>

\* retry_delays = [0.2, 0.5], in tenths of a second.
RetryDelays == <<2, 5>>

---------------------------------------------------------------------------
(* The world outside the program: file contents, the local file system,    *)
(* and one directory manifest.                                             *)

Size(c) ==
    CASE c = "hello" -> 5
      [] c = "hell0" -> 5
      [] c = "hel"   -> 3
      [] c = "B"     -> 1
      [] c = "MJ"    -> 9
      [] c = "MD"    -> 8
      [] c = "Epq"   -> 7
      [] c = "Eqp"   -> 7
      [] OTHER       -> 0

\* hashlib digest of a content under an algorithm (injective, per algorithm).
ComputeHash(alg, c) == <<alg, c>>

\* What a tampering network delivers instead of the stored bytes.
Tamper(c) == IF c = "hello" THEN "hell0" ELSE "hel"

\* Regular files of the local file system: path (a sequence of names) ->
\* content.  f is a file; d is a directory holding a.txt and sub/b.txt; e is
\* a directory holding the files p and q.
LocalFS ==
    [p \in {<<"f">>, <<"d", "a.txt">>, <<"d", "sub", "b.txt">>, <<"e", "p">>, <<"e", "q">>} |->
        IF p \in {<<"d", "sub", "b.txt">>, <<"e", "q">>} THEN "B" ELSE "hello"]

\* The entries of the local directories, in name order.
ListDir(path) ==
    CASE path = <<"d">>        -> <<"a.txt", "sub">>
      [] path = <<"d", "sub">> -> <<"b.txt">>
      [] path = <<"e">>        -> <<"p", "q">>
      [] OTHER                 -> <<>>

Reverse(list0) == [i \in 1..Len(list0) |-> list0[Len(list0) + 1 - i]]

\* os.listdir(path): the entries in an arbitrary order, which the
\* environment picks (rev: the reverse of the name order).
Listing(env, path) == IF env.rev THEN Reverse(ListDir(path)) ELSE ListDir(path)

IsDir(path) == path \in {<<"d">>, <<"d", "sub">>, <<"e">>}

\* os.path.basename
Basename(path) == path[Len(path)]

LeafA == [size |-> 5, sha1 |-> ComputeHash("sha1", "hello"), md5 |-> ComputeHash("md5", "hello")]
LeafB == [size |-> 1, sha1 |-> ComputeHash("sha1", "B")]

SubManifest == [dirs |-> EmptyDict, files |-> [n \in {"b.txt"} |-> LeafB]]

\* The manifest {files: {a.txt}, dirs: {sub: {files: {b.txt}}, raw: {}}};
\* raw is a directory recorded as present but not expanded.
Manifest ==
    [dirs  |-> [n \in {"sub", "raw"} |-> IF n = "sub" THEN SubManifest ELSE EmptyDict],
     files |-> [n \in {"a.txt"} |-> LeafA]]

\* What _read_file_system_dir records for a file holding "hello".
LeafHello == [size |-> 5, sha1 |-> ComputeHash("sha1", "hello")]

\* The manifests of the local directories d and e under algorithm sha1.
ManifestD ==
    [dirs  |-> [n \in {"sub"} |-> SubManifest],
     files |-> [n \in {"a.txt"} |-> LeafHello]]

ManifestE ==
    [dirs  |-> EmptyDict,
     files |-> [n \in {"p", "q"} |-> IF n = "p" THEN LeafHello ELSE LeafB]]

\* simplejson.dumps(object, indent=indent), without sort_keys: the keys of a
\* dict are written in the order they were inserted.  keys is the order in
\* which the names of object['files'] were inserted; the text of a manifest
\* with two files depends on it.
Dumps(obj, keys) ==
    CASE obj = Manifest  -> "MJ"
      [] obj = ManifestD -> "MD"
      [] obj = ManifestE -> IF keys = <<"p", "q">> THEN "Epq" ELSE "Eqp"
      [] OTHER           -> "J"

\* simplejson.load of a file: the manifest blobs are JSON, and a text
\* parses to the same dict whatever the order of its keys.
IsJson(c) == c \in {"MJ", "MD", "Epq", "Eqp"}
ParseJson(c) ==
    CASE c = "MD"             -> ManifestD
      [] c \in {"Epq", "Eqp"} -> ManifestE
      [] OTHER                -> Manifest

---------------------------------------------------------------------------
(* URLs.  A path argument is the record of what split('/') and split('.')  *)
(* take apart: protocol (list0[0] without ':'), hash and label (list0[2]), *)
(* path (list0[3:]).  A plain local path has protocol "".                  *)

Url(protocol, hash, label, path) ==
    [protocol |-> protocol, hash |-> hash, label |-> label, path |-> path]

LocalPath(p) == Url("", NoHash, "", p)

DirProtocol(alg) == IF alg = "sha1" THEN "sha1dir" ELSE "md5dir"
StartsWith(protocol, alg) == protocol \in {alg, DirProtocol(alg)}
EndsWithDir(protocol) == protocol \in {"sha1dir", "md5dir"}

IsHashUrl(path) ==
    \E k \in 1..Len(AlgList) : StartsWith(path.protocol, AlgList[k])

RECURSIVE AlgOfProtocol(_, _, _)
AlgOfProtocol(protocol, k, acc) ==
    IF k > Len(AlgList) THEN acc
    ELSE AlgOfProtocol(protocol, k + 1,
                       IF StartsWith(protocol, AlgList[k]) THEN AlgList[k] ELSE acc)

ParseHashUrl(url) ==
    [protocol        |-> url.protocol,
     algorithm       |-> AlgOfProtocol(url.protocol, 1, None),
     hash0           |-> url.hash,
     additional_path |-> url.path]

PlainUrl_mut(alg, hash) == Url(alg, hash, "x", <<>>)

\* '{}://{}'.format(algorithm, hash0)
PlainUrl(alg, hash) == Url(alg, hash, "", <<>>)

---------------------------------------------------------------------------
(* Config                                                                  *)

ConfigKeys == {"url", "channel", "password", "algorithm", "use_remote", "use_remote_only"}

\* ret = kwargs['config'] if given, else a copy of _global_config; then every
\* keyword is written over it.  (Python also stores the record under its own
\* key 'config'; that key is never read and is left out here.)
LoadConfig(kwargs, G) ==
    LET base == IF "config" \in DOMAIN kwargs THEN kwargs.config ELSE G
        keys == (DOMAIN base \cup DOMAIN kwargs) \ {"config"}
    IN  [k \in keys |-> IF k \in DOMAIN kwargs THEN kwargs[k] ELSE base[k]]

LoadConfigTarget_mut(kwargs) == IF "config" \in DOMAIN kwargs THEN "kwargs" ELSE "global"

\* The dict _load_config writes the keywords into and returns: the one passed
\* as config= ("kwargs"), else a new dict filled from _global_config ("copy").
LoadConfigTarget(kwargs) == IF "config" \in DOMAIN kwargs THEN "kwargs" ELSE "copy"

\* _global_config after _load_config(**kwargs) has run.
GlobalAfterLoadConfig(kwargs, G) ==
    IF LoadConfigTarget(kwargs) = "global" THEN LoadConfig(kwargs, G) ELSE G

\* What the caller holds of get_config: no dict yet.
NoSnapshot == [ref |-> "none", val |-> EmptyDict]

---------------------------------------------------------------------------
(* The local hash cache (LocalHashCache) and a value for paths.            *)
(* A cache or a remote store is a set of [alg, hash, bytes] entries.       *)

Entry(alg, hash, bytes) == [alg |-> alg, hash |-> hash, bytes |-> bytes]

Has(store, alg, hash) == \E e \in store : e.alg = alg /\ e.hash = hash
BytesAt(store, alg, hash) == (CHOOSE e \in store : e.alg = alg /\ e.hash = hash).bytes

\* A returned path: where it lies and what the file there holds.
Path(where, alg, hash, bytes) == [where |-> where, alg |-> alg, hash |-> hash, bytes |-> bytes]
NoPath == Path("none", "", NoHash, "")

\* findFile(hash): the canonical path iff a file exists there.
FindFile(cache, alg, hash) ==
    IF Has(cache, alg, hash)
    THEN Path("cache", alg, hash, BytesAt(cache, alg, hash))
    ELSE NoPath

\* computeFileHash(path): the digest of a local file, None if it cannot be read.
ComputeFileHash(fs, alg, path) ==
    IF path \in DOMAIN fs THEN ComputeHash(alg, fs[path]) ELSE NoHash

CopyFileToCache_mut(cache, alg, bytes) ==
    IF Has(cache, alg, ComputeHash(alg, bytes)) THEN cache \ {Entry(alg, ComputeHash(alg, bytes), bytes)}
    ELSE cache \cup {Entry(alg, ComputeHash(alg, bytes), bytes)}

\* copyFileToCache(path): place the file at its canonical path unless a file
\* is already there; returns the digest.
CopyFileToCache(cache, alg, bytes) ==
    IF Has(cache, alg, ComputeHash(alg, bytes)) THEN cache
    ELSE cache \cup {Entry(alg, ComputeHash(alg, bytes), bytes)}

---------------------------------------------------------------------------
(* HTTP.  w is the world a call runs in: the cache, the remote store, the  *)
(* log of HTTP events of this call and the number of connection failures   *)
(* the network still has in stock.  env is what the environment does       *)
(* during the call.                                                        *)

Ev(ev, what, alg, hash, n) == [ev |-> ev, what |-> what, alg |-> alg, hash |-> hash, n |-> n]

\* dict.get(key, default)
Get(d, key, default) == IF key \in DOMAIN d THEN d[key] ELSE default

\* The JSON a reachable server answers to a check.
ServerCheck(kind, remote, alg, hash) ==
    CASE kind = "fail_err"   -> [success |-> FALSE, error |-> "server error"]
      [] kind = "fail_noerr" -> [success |-> FALSE]
      [] OTHER ->
            IF Has(remote, alg, hash)
            THEN [success |-> TRUE, found |-> TRUE, size |-> Size(BytesAt(remote, alg, hash))]
            ELSE [success |-> TRUE, found |-> FALSE]

\* What a check answered, for the log: the server's refusals by their kind,
\* its answers by what they report.
AnswerKind(kind, resp) ==
    IF ~resp.success THEN kind
    ELSE IF resp.found THEN "found" ELSE "notfound"

\* The dict _http_get_json returns, logged as a RESP event with its size.
Answer(w, url, kind, resp) ==
    [w    |-> [w EXCEPT !.log = Append(@, Ev("RESP", kind, url.alg, url.hash, Get(resp, "size", 0)))],
     resp |-> resp]

\* retry_delays=None, the default of the parameter (a list otherwise).
NoList == <<-1>>

RECURSIVE HttpGetJson(_, _, _, _)
HttpGetJson(url, retry_delays0, w, env) ==
    LET retry_delays == IF retry_delays0 = NoList THEN RetryDelays ELSE retry_delays0
        opens == ~(url.base = None \/ w.fails > 0)
        \* the attempt is logged with n = 1 if the connection opened, 0 if not
        w1 == [w EXCEPT !.log = Append(@, Ev("GET", url.name, url.alg, url.hash, IF opens THEN 1 ELSE 0))]
    IN  IF ~opens
        THEN \* request.urlopen raised
             LET w2 == [w1 EXCEPT !.fails = IF url.base = None THEN @ ELSE @ - 1]
             IN  IF Len(retry_delays) > 0
                 THEN HttpGetJson(url, Tail(retry_delays),
                                  [w2 EXCEPT !.log = Append(@, Ev("SLEEP", "", "", NoHash, retry_delays[1]))],
                                  env)
                 ELSE Answer(w2, url, "openfail", [success |-> FALSE, error |-> "Unable to open url"])
        ELSE IF env.resp = "badjson"
        THEN Answer(w1, url, "badjson", [success |-> FALSE, error |-> "Unable to load json from url"])
        ELSE LET resp == ServerCheck(env.resp, w.remote, url.alg, url.hash)
             IN  Answer(w1, url, AnswerKind(env.resp, resp), resp)

FormUrl(name, alg, hash, config) == [name |-> name, base |-> config.url, alg |-> alg, hash |-> hash]

DownloadFile_mut(alg, hash, size, dest, w, env) ==
    LET w1   == [w EXCEPT !.log = Append(@, Ev("GET", "download", alg, hash, size))]
        sent == IF Has(w.remote, alg, hash) THEN BytesAt(w.remote, alg, hash) ELSE ""
        body == IF env.tamper THEN Tamper(sent) ELSE sent
    IN  IF Size(body) = size
        THEN [w   |-> [w1 EXCEPT !.cache = IF Has(@, alg, hash) THEN @ ELSE @ \cup {Entry(alg, hash, body)}],
              ret |-> Path(IF dest THEN "dest" ELSE "cache", alg, hash, body),
              exc |-> ""]
        ELSE [w |-> w1, ret |-> NoPath, exc |-> "IntegrityError"]

\* requests.get of the download URL by downloadFile: the body is streamed to
\* a temporary file, its digest and byte count are verified, and only then is
\* it renamed to the canonical path (and copied to target_path if given).
DownloadFile(alg, hash, size, dest, w, env) ==
    LET w1   == [w EXCEPT !.log = Append(@, Ev("GET", "download", alg, hash, size))]
        sent == IF Has(w.remote, alg, hash) THEN BytesAt(w.remote, alg, hash) ELSE ""
        body == IF env.tamper THEN Tamper(sent) ELSE sent
    IN  IF ComputeHash(alg, body) = hash /\ Size(body) = size
        THEN [w   |-> [w1 EXCEPT !.cache = IF Has(@, alg, hash) THEN @ ELSE @ \cup {Entry(alg, hash, body)}],
              ret |-> Path(IF dest THEN "dest" ELSE "cache", alg, hash, body),
              exc |-> ""]
        ELSE [w |-> w1, ret |-> NoPath, exc |-> "IntegrityError"]

\* requests.post of the file bytes; the server stores them when it accepts.
HttpPostFileData(url, bytes, w, env) ==
    LET w1 == [w EXCEPT !.log = Append(Append(@, Ev("POST", url.name, url.alg, url.hash, Size(bytes))),
                                       Ev("RESP", env.post, url.alg, url.hash, 0))]
    IN  CASE env.post = "exc" ->
                [w |-> w1, resp |-> EmptyDict, exc |-> "Error posting file data."]
          [] env.post = "reject" ->
                [w |-> w1, resp |-> [success |-> FALSE, error |-> "Error posting file data: 500"], exc |-> ""]
          [] env.post = "nosuccess" ->
                [w |-> w1, resp |-> [success |-> FALSE, error |-> "refused"], exc |-> ""]
          [] env.post = "empty" ->
                [w |-> w1, resp |-> EmptyDict, exc |-> ""]
          [] OTHER ->
                [w    |-> [w1 EXCEPT !.remote = IF Has(@, url.alg, url.hash) THEN @
                                                 ELSE @ \cup {Entry(url.alg, url.hash, bytes)}],
                 resp |-> [success |-> TRUE],
                 exc  |-> ""]

---------------------------------------------------------------------------
(* The resolver                                                            *)

RECURSIVE LeafDigest(_, _, _)
\* for alg in ['sha1', 'md5']: if alg in entry: hash1 = entry[alg]; algorithm1 = alg
LeafDigest(entry, k, acc) ==
    IF k > Len(AlgList) THEN acc
    ELSE LeafDigest(entry, k + 1,
                    IF AlgList[k] \in DOMAIN entry
                    THEN [hash |-> entry[AlgList[k]], alg |-> AlgList[k]]
                    ELSE acc)

NoDigest == [hash |-> NoHash, alg |-> None]

\* How the while loop of _determine_file_hash_from_url ended: the digest it
\* returns, the exception it raises, and how often its body ran (n) for a
\* sub-path of len components.
WalkEnd(d, exc, n, list0) == [d |-> d, exc |-> exc, n |-> n, len |-> Len(list0)]

RECURSIVE WalkToHash(_, _, _)
\* The while loop of _determine_file_hash_from_url, from index ii (0-based).
\* n counts the executions of the loop body, len is len(list0).
WalkToHash(dd, list0, ii) ==
    IF ~(ii < Len(list0)) THEN WalkEnd(NoDigest, "", ii, list0)
    ELSE IF "dirs" \notin DOMAIN dd THEN WalkEnd(NoDigest, "KeyError", ii + 1, list0)
    ELSE IF list0[ii + 1] \in DOMAIN dd.dirs THEN WalkToHash(dd.dirs[list0[ii + 1]], list0, ii + 1)
    ELSE IF "files" \notin DOMAIN dd THEN WalkEnd(NoDigest, "KeyError", ii + 1, list0)
    ELSE IF list0[ii + 1] \in DOMAIN dd.files
         THEN IF ii + 1 = Len(list0)
              THEN WalkEnd(LeafDigest(dd.files[list0[ii + 1]], 1, NoDigest), "", ii + 1, list0)
              ELSE WalkEnd(NoDigest, "", ii + 1, list0)
    ELSE WalkEnd(NoDigest, "", ii + 1, list0)

RECURSIVE LoadFile(_, _, _, _, _, _)

\* load_object, from the return of its load_file (r) on: simplejson.load.
LoadedObject(r) ==
    IF r.exc # "" THEN [w |-> r.w, obj |-> EmptyDict, isNone |-> TRUE, exc |-> r.exc]
    ELSE IF r.ret = NoPath THEN [w |-> r.w, obj |-> EmptyDict, isNone |-> TRUE, exc |-> ""]
    ELSE IF ~IsJson(r.ret.bytes)
         THEN [w |-> r.w, obj |-> EmptyDict, isNone |-> TRUE, exc |-> "JSONDecodeError"]
    ELSE [w |-> r.w, obj |-> ParseJson(r.ret.bytes), isNone |-> FALSE, exc |-> ""]

LoadObject(path, kwargs, G, w, env) == LoadedObject(LoadFile(path, FALSE, kwargs, G, w, env))

Resolved(w, d, exc) == [w |-> w, hash |-> d.hash, alg |-> d.alg, exc |-> exc]

\* The walk, once it has run (r).
Walked(w, r) == Resolved([w EXCEPT !.walks = Append(@, [n |-> r.n, len |-> r.len])], r.d, r.exc)

\* _determine_file_hash_from_url, from the return of load_object (o) on.
WalkManifest(o, list0) ==
    IF o.exc # "" THEN Resolved(o.w, NoDigest, o.exc)
    ELSE IF o.isNone THEN Resolved(o.w, NoDigest, "")
    ELSE Walked(o.w, WalkToHash(o.obj, list0, 0))

\* _determine_file_hash_from_url, from the return of _parse_hash_url (p) on.
DetermineParsed(p, G, w, env) ==
    IF ~EndsWithDir(p.protocol)
    THEN [w |-> w, hash |-> p.hash0, alg |-> p.algorithm, exc |-> ""]
    ELSE \* load_object is called without config: it runs under _global_config
         WalkManifest(LoadObject(PlainUrl(p.algorithm, p.hash0), EmptyDict, G, w, env),
                      p.additional_path)

DetermineFileHashFromUrl(url, config, G, w, env) == DetermineParsed(ParseHashUrl(url), G, w, env)

\* _find_file_locally, from the return of _determine_file_hash_from_url (d) on.
FoundLocally(d) ==
    IF d.exc # "" THEN [w |-> d.w, ret |-> NoPath, exc |-> d.exc]
    ELSE IF d.hash = NoHash THEN [w |-> d.w, ret |-> NoPath, exc |-> ""]
    ELSE [w |-> d.w, ret |-> FindFile(d.w.cache, d.alg, d.hash), exc |-> ""]

FindFileLocally(path, config, G, w, env) ==
    FoundLocally(DetermineFileHashFromUrl(path, config, G, w, env))

NotOnRemote(w, exc) ==
    [w |-> w, url |-> FALSE, alg |-> None, hash |-> NoHash, size |-> 0, exc |-> exc]

\* _check_remote_file, from the return of _http_get_json (g) on.
Checked(d, g) ==
    IF ~g.resp.success
    THEN \* print('Warning: Problem checking for file: ' + check_resp['error'])
         IF "error" \notin DOMAIN g.resp
         THEN NotOnRemote(g.w, "KeyError")
         ELSE NotOnRemote(g.w, "")
    ELSE IF g.resp.found
         THEN [w |-> g.w, url |-> TRUE, alg |-> d.alg, hash |-> d.hash,
               size |-> g.resp.size, exc |-> ""]
         ELSE NotOnRemote(g.w, "")

\* _check_remote_file, from the return of _determine_file_hash_from_url (d) on.
CheckResolved(d, config, env) ==
    IF d.exc # "" THEN NotOnRemote(d.w, d.exc)
    ELSE IF d.hash = NoHash THEN NotOnRemote(d.w, "")
    ELSE Checked(d, HttpGetJson(FormUrl("check", d.alg, d.hash, config), NoList, d.w, env))

CheckRemoteFile(hash_url, config, G, w, env) ==
    IF ~IsHashUrl(hash_url) THEN NotOnRemote(w, "Unexpected")
    ELSE CheckResolved(DetermineFileHashFromUrl(hash_url, config, G, w, env), config, env)

\* load_file, from the return of _check_remote_file (c) on.
LoadChecked(dest, env, c) ==
    IF c.exc # "" THEN [w |-> c.w, ret |-> NoPath, exc |-> c.exc]
    ELSE IF c.url THEN DownloadFile(c.alg, c.hash, c.size, dest, c.w, env)
    ELSE [w |-> c.w, ret |-> NoPath, exc |-> ""]

\* load_file of a hash URL, from the local lookup (loc) on.
LoadLookedUp(path, dest, config, G, env, loc) ==
    IF loc.exc # "" THEN [w |-> loc.w, ret |-> NoPath, exc |-> loc.exc]
    ELSE IF loc.ret # NoPath
         THEN [w   |-> loc.w,
               ret |-> IF dest THEN [loc.ret EXCEPT !.where = "dest"] ELSE loc.ret,
               exc |-> ""]
    ELSE IF config.use_remote \/ config.use_remote_only
         THEN LoadChecked(dest, env, CheckRemoteFile(path, config, G, loc.w, env))
    ELSE [w |-> loc.w, ret |-> NoPath, exc |-> ""]

\* load_file, from the return of _load_config (config) on.
LoadConfigured(path, dest, config, G, w, env) ==
    IF IsHashUrl(path)
    THEN LoadLookedUp(path, dest, config, G, env,
                      IF ~config.use_remote_only
                      THEN FindFileLocally(path, config, G, w, env)
                      ELSE [w |-> w, ret |-> NoPath, exc |-> ""])
    ELSE IF path.path \in DOMAIN LocalFS
         THEN [w   |-> w,
               ret |-> Path(IF dest THEN "dest" ELSE "local", "", NoHash, LocalFS[path.path]),
               exc |-> ""]
         ELSE [w |-> w, ret |-> NoPath, exc |-> ""]

\* A call of load_file begins: it is one level deeper on the call stack than
\* its caller, and the world records at which depth it loads which URL.
Entered(w, path) ==
    [w EXCEPT !.depth = @ + 1, !.loads = Append(@, [depth |-> w.depth + 1, path |-> path])]

\* The call of load_file returns or raises (r).
Left(r) == [r EXCEPT !.w.depth = @ - 1]

LoadFile(path, dest, kwargs, G, w, env) ==
    Left(LoadConfigured(path, dest, LoadConfig(kwargs, G), G, Entered(w, path), env))

---------------------------------------------------------------------------
(* Storing                                                                 *)

MissingConfig_mut(config) ==
    IF config.url = None THEN "Missing url config parameter"
    ELSE IF config.channel = None THEN "Missing channel config parameter"
    ELSE ""

\* The three 'if not config[...]: raise' of _upload_local_file: the message
\* of the first that fires, "" if none does.
MissingConfig(config) ==
    IF config.url = None THEN "Missing url config parameter"
    ELSE IF config.channel = None THEN "Missing channel config parameter"
    ELSE IF config.password = None THEN "Missing password config parameter"
    ELSE ""

\* _upload_local_file, from the return of _http_post_file_data (r) on.
Posted(r) ==
    IF r.exc # "" THEN [w |-> r.w, exc |-> r.exc]
    ELSE IF ~Get(r.resp, "success", FALSE) THEN [w |-> r.w, exc |-> "Problem posting file data"]
    ELSE [w |-> r.w, exc |-> ""]

\* _upload_local_file, from the return of its _check_remote_file (c) on.
UploadChecked(bytes, hash, alg, config, env, c) ==
    IF c.exc # "" THEN [w |-> c.w, exc |-> c.exc]
    ELSE IF c.url
         THEN \* already on the remote server
              IF c.size # Size(bytes)
              THEN [w |-> c.w, exc |-> "Unexpected: size of file on remote server does not match"]
              ELSE [w |-> c.w, exc |-> ""]
    ELSE Posted(HttpPostFileData(FormUrl("upload", alg, hash, config), bytes, c.w, env))

UploadLocalFile(bytes, hash, alg, config, G, w, env) ==
    IF MissingConfig(config) # "" THEN [w |-> w, exc |-> MissingConfig(config)]
    ELSE UploadChecked(bytes, hash, alg, config, env,
                       CheckRemoteFile(PlainUrl(alg, hash), config, G, w, env))

NoUrl == Url("none", NoHash, "", <<>>)

StoresLocally_mut(config) == config.use_remote_only

\* 'if not config['use_remote_only']' of store_file: the file is ingested
\* into the local cache.
StoresLocally(config) == ~config.use_remote_only

\* store_file, from the upload step (up) on.
Stored(url, up) ==
    IF up.exc # "" THEN [w |-> up.w, url |-> NoUrl, exc |-> up.exc]
    ELSE [w |-> up.w, url |-> url, exc |-> ""]

StoreIngested_mut(bytes, hash0, basename, git_annex_mode, config, G, w1, env) ==
    Stored(Url(config.algorithm, hash0, "", <<basename>>),
           IF (config.use_remote \/ config.use_remote_only)
           THEN UploadLocalFile(bytes, hash0, config.algorithm, config, G, w1, env)
           ELSE [w |-> w1, exc |-> ""])

\* store_file, from the local ingestion (into the world w1) on.
StoreIngested(bytes, hash0, basename, git_annex_mode, config, G, w1, env) ==
    Stored(Url(config.algorithm, hash0, "", <<basename>>),
           IF (config.use_remote \/ config.use_remote_only) /\ ~git_annex_mode
           THEN UploadLocalFile(bytes, hash0, config.algorithm, config, G, w1, env)
           ELSE [w |-> w1, exc |-> ""])

StoreConfigured_mut(fs, path, basename, git_annex_mode, config, G, w, env) ==
    IF ComputeFileHash(fs, config.algorithm, path) = NoHash
    THEN [w |-> w, url |-> NoUrl, exc |-> "Unable to compute hash of file"]
    ELSE StoreIngested(fs[path], ComputeFileHash(fs, config.algorithm, path), basename,
                       git_annex_mode, config, G,
                       IF StoresLocally(config) /\ ~config.use_remote
                       THEN [w EXCEPT !.cache = CopyFileToCache(@, config.algorithm, fs[path])]
                       ELSE w,
                       env)

\* store_file, from the return of _load_config (config) on.
StoreConfigured(fs, path, basename, git_annex_mode, config, G, w, env) ==
    IF ComputeFileHash(fs, config.algorithm, path) = NoHash
    THEN [w |-> w, url |-> NoUrl, exc |-> "Unable to compute hash of file"]
    ELSE StoreIngested(fs[path], ComputeFileHash(fs, config.algorithm, path), basename,
                       git_annex_mode, config, G,
                       IF StoresLocally(config)
                       THEN [w EXCEPT !.cache = CopyFileToCache(@, config.algorithm, fs[path])]
                       ELSE w,
                       env)

\* fs is the file system the call sees (LocalFS, plus a temporary file when
\* the caller is store_text).
StoreFile(fs, path, basename, git_annex_mode, kwargs, G, w, env) ==
    StoreConfigured(fs, path, IF basename = None THEN Basename(path) ELSE basename,
                    git_annex_mode, LoadConfig(kwargs, G), G, w, env)


\* The file system with the named temporary file store_text writes.
WithTemp(text) ==
    [p \in DOMAIN LocalFS \cup {<<"tmp">>} |-> IF p = <<"tmp">> THEN text ELSE LocalFS[p]]

StoreText(text, basename, kwargs, G, w, env) ==
    StoreFile(WithTemp(text), <<"tmp">>, IF basename = None THEN "file.txt" ELSE basename,
              FALSE, kwargs, G, w, env)

\* keys is the insertion order of the names of object['files'].
StoreObject(object, keys, basename, kwargs, G, w, env) ==
    StoreText(Dumps(object, keys), IF basename = None THEN "file.json" ELSE basename, kwargs, G, w, env)

---------------------------------------------------------------------------
(* Directories                                                             *)

\* ret['files'][name0] = entry, and the like: a dict with one key (re)bound.
Put(d, key, val) == [k \in DOMAIN d \cup {key} |-> IF k = key THEN val ELSE d[k]]

\* Symbolic links into .git/annex/objects; the modelled file system has none.
AnnexLinks == {}

\* _get_info_from_git_annex_link: digest and size read off the link target's
\* name MD5E-s<size>--<hash>.<ext>.
GetInfoFromGitAnnexLink(path) == [hash |-> ComputeHash("md5", LocalFS[path]), size |-> Size(LocalFS[path])]

\* ret['files'][name0] of a regular file: its size and, if asked for, its digest.
FileEntry(path0, include_hashes, algorithm) ==
    [f \in {"size"} \cup (IF include_hashes THEN {algorithm} ELSE {}) |->
        IF f = "size" THEN Size(LocalFS[path0]) ELSE ComputeFileHash(LocalFS, algorithm, path0)]

\* The flags _read_file_system_dir passes down unchanged.
Flags(recursive, include_hashes, store_files, git_annex_mode) ==
    [recursive |-> recursive, include_hashes |-> include_hashes, store_files |-> store_files,
     git_annex_mode |-> git_annex_mode]

RECURSIVE ReadFileSystemDir(_, _, _, _, _, _)
RECURSIVE ReadEntries(_, _, _, _, _, _, _, _, _)

\* The loop body for a regular file, from the return of store_file (st) on.
EntryStored(path, list0, k, ret1, fl, config, G, env, st) ==
    IF st.exc # "" THEN [w |-> st.w, ret |-> ret1, exc |-> st.exc]
    ELSE ReadEntries(path, list0, k + 1, ret1, fl, config, G, st.w, env)

\* The loop body for a directory, from the return of the recursive call (sub) on.
EntryRead(path, list0, k, ret, fl, config, G, env, sub) ==
    IF sub.exc # "" THEN [w |-> sub.w, ret |-> ret, exc |-> sub.exc]
    ELSE ReadEntries(path, list0, k + 1, [ret EXCEPT !.dirs = Put(@, list0[k], sub.ret)],
                     fl, config, G, sub.w, env)

\* The for loop of _read_file_system_dir from entry k of list0 on.
ReadEntries(path, list0, k, ret, fl, config, G, w, env) ==
    IF k > Len(list0) THEN [w |-> w, ret |-> ret, exc |-> ""]
    ELSE IF fl.git_annex_mode /\ Append(path, list0[k]) \in AnnexLinks
    THEN ReadEntries(path, list0, k + 1,
                     [ret EXCEPT !.files =
                         Put(@, list0[k],
                             [size |-> GetInfoFromGitAnnexLink(Append(path, list0[k])).size,
                              md5  |-> GetInfoFromGitAnnexLink(Append(path, list0[k])).hash])],
                     fl, config, G, w, env)
    ELSE IF Append(path, list0[k]) \in DOMAIN LocalFS
    THEN EntryStored(path, list0, k,
                     [ret EXCEPT !.files =
                         Put(@, list0[k],
                             FileEntry(Append(path, list0[k]), fl.include_hashes, config.algorithm))],
                     fl, config, G, env,
                     IF fl.store_files
                     THEN StoreFile(LocalFS, Append(path, list0[k]), None, fl.git_annex_mode,
                                    [config |-> config], G, w, env)
                     ELSE [w |-> w, url |-> NoUrl, exc |-> ""])
    ELSE IF IsDir(Append(path, list0[k]))
    THEN EntryRead(path, list0, k, ret, fl, config, G, env,
                   IF fl.recursive
                   THEN ReadFileSystemDir(Append(path, list0[k]), fl, config, G, w, env)
                   ELSE [w |-> w, ret |-> EmptyDict, exc |-> ""])
    ELSE ReadEntries(path, list0, k + 1, ret, fl, config, G, w, env)

ReadFileSystemDir(path, fl, config, G, w, env) ==
    IF ~IsDir(path) THEN [w |-> w, ret |-> EmptyDict, exc |-> "FileNotFoundError"]
    ELSE ReadEntries(path, Listing(env, path), 1, [files |-> EmptyDict, dirs |-> EmptyDict],
                     fl, config, G, w, env)

NoDir(w, exc) == [w |-> w, dd |-> EmptyDict, isNone |-> TRUE, exc |-> exc]

RECURSIVE WalkToDir(_, _, _, _)
\* The while loop of read_dir, from index ii (0-based).
WalkToDir(dd, list0, ii, w) ==
    IF ~(ii < Len(list0)) THEN [w |-> w, dd |-> dd, isNone |-> FALSE, exc |-> ""]
    ELSE IF "dirs" \notin DOMAIN dd THEN NoDir(w, "KeyError")
    ELSE IF list0[ii + 1] \in DOMAIN dd.dirs THEN WalkToDir(dd.dirs[list0[ii + 1]], list0, ii + 1, w)
    ELSE IF "files" \notin DOMAIN dd THEN NoDir(w, "KeyError")
    ELSE IF list0[ii + 1] \in DOMAIN dd.files THEN NoDir(w, "Not a directory")
    ELSE NoDir(w, "")

\* if dd: if not recursive: for dname in dd['dirs']: dd['dirs'][dname] = {}
Flatten(dd, recursive) ==
    IF DOMAIN dd # {} /\ ~recursive
    THEN [dd EXCEPT !.dirs = [n \in DOMAIN dd.dirs |-> EmptyDict]]
    ELSE dd

\* read_dir, from the end of its while loop (r) on.
DirWalked(r, recursive) ==
    IF r.exc # "" \/ r.isNone THEN r
    ELSE [r EXCEPT !.dd = Flatten(r.dd, recursive)]

\* read_dir of a hash URL, from the return of load_object (o) on.
DirLoaded(o, list0, recursive) ==
    IF o.exc # "" THEN NoDir(o.w, o.exc)
    ELSE IF o.isNone THEN NoDir(o.w, "")
    ELSE DirWalked(WalkToDir(o.obj, list0, 0, o.w), recursive)

\* read_dir of a local path, from the return of _read_file_system_dir (r) on.
DirRead(r) == [w |-> r.w, dd |-> r.ret, isNone |-> FALSE, exc |-> r.exc]

\* read_dir, from the return of _load_config (config) and _parse_hash_url (p) on.
ReadDirConfigured(path, p, recursive, git_annex_mode, config, G, w, env) ==
    IF IsHashUrl(path)
    THEN IF ~EndsWithDir(p.protocol) THEN NoDir(w, "Not a directory")
         ELSE DirLoaded(LoadObject(PlainUrl(p.algorithm, p.hash0), [config |-> config], G, w, env),
                        p.additional_path, recursive)
    ELSE DirRead(ReadFileSystemDir(path.path, Flags(recursive, TRUE, FALSE, git_annex_mode),
                                   config, G, w, env))

ReadDir(path, recursive, git_annex_mode, kwargs, G, w, env) ==
    ReadDirConfigured(path, ParseHashUrl(path), recursive, git_annex_mode, LoadConfig(kwargs, G),
                      G, w, env)

\* The names of the regular files among list0, the entries of path, in order.
FileNames(path, list0) == SelectSeq(list0, LAMBDA n : Append(path, n) \in DOMAIN LocalFS)

\* store_dir, from the return of _determine_file_hash_from_url (d) on.
DirNamed(d, label) ==
    IF d.exc # "" THEN [w |-> d.w, url |-> NoUrl, exc |-> d.exc]
    ELSE [w |-> d.w, url |-> Url(DirProtocol(d.alg), d.hash, label, <<>>), exc |-> ""]

\* store_dir, from the return of store_object (st) on.
ManifestStored(st, label, config, G, env) ==
    IF st.exc # "" THEN [w |-> st.w, url |-> NoUrl, exc |-> st.exc]
    ELSE DirNamed(DetermineFileHashFromUrl(st.url, config, G, st.w, env), label)

\* store_dir, from the return of _read_file_system_dir (X) on.  The dict X
\* holds its names in the order os.listdir gave them.
DirBuilt(X, dirpath, label, config, G, env) ==
    IF X.exc # "" THEN [w |-> X.w, url |-> NoUrl, exc |-> X.exc]
    ELSE IF DOMAIN X.ret = {} THEN [w |-> X.w, url |-> NoUrl, exc |-> ""]
    ELSE ManifestStored(StoreObject(X.ret, FileNames(dirpath, Listing(env, dirpath)), None,
                                    [config |-> config], G, X.w, env),
                        label, config, G, env)

StoreDirConfigured_mut(dirpath, label, git_annex_mode, config, G, w, env) ==
    DirBuilt(ReadFileSystemDir(dirpath, Flags(TRUE, TRUE, FALSE, git_annex_mode), config, G, w, env),
             dirpath, label, config, G, env)

\* store_dir, from the return of _load_config (config) on.
StoreDirConfigured(dirpath, label, git_annex_mode, config, G, w, env) ==
    DirBuilt(ReadFileSystemDir(dirpath, Flags(TRUE, TRUE, TRUE, git_annex_mode), config, G, w, env),
             dirpath, label, config, G, env)

StoreDir(dirpath, label, git_annex_mode, kwargs, G, w, env) ==
    StoreDirConfigured(dirpath, IF label = None THEN Basename(dirpath) ELSE label, git_annex_mode,
                       LoadConfig(kwargs, G), G, w, env)

---------------------------------------------------------------------------
(* The Explore widget (kachery_widgets/widgets/Explore/Explore.py).  A      *)
(* handler runs to completion; what it passes to set_state, in order, is    *)
(* the sequence published.                                                  *)

\* One call of set_state: the key set and its value (status for the key
\* status; isNone and dd for the key dir_content).
Pub(key, status, isNone, dd) == [key |-> key, status |-> status, isNone |-> isNone, dd |-> dd]

\* _set_status(status, ...): self._set_state(status=status, status_message=...)
SetStatus(status) == Pub("status", status, TRUE, EmptyDict)

\* _set_state(dir_content=...)
SetDirContent(isNone, dd) == Pub("dir_content", "", isNone, dd)

\* The keywords of the handlers' ka.set_config(preset='default_readonly').
PresetKw == [preset |-> "default_readonly"]

\* def set_config(*, use_remote, use_remote_only, channel, password,
\* algorithm, url): the call is a TypeError when a keyword is none of these.
SetConfigAccepts(kw) == DOMAIN kw \subseteq ConfigKeys

\* What a handler did: what it published, the exception it raised, the
\* statement that raised it (at), and the world it leaves.
Handled(published, exc, at, w) == [published |-> published, exc |-> exc, at |-> at, w |-> w]

\* javascript_state_changed, from the return of ka.read_dir (r) on.
DirContentRead(r) ==
    IF r.exc # ""
    THEN Handled(<<SetStatus("running"), SetDirContent(TRUE, EmptyDict)>>, r.exc, "read_dir", r.w)
    ELSE Handled(<<SetStatus("running"), SetDirContent(TRUE, EmptyDict),
                   SetDirContent(r.isNone, r.dd), SetStatus("finished")>>, "", "", r.w)

\* javascript_state_changed(prev_state, state) with state['dir_path'] = dir_path.
JavascriptStateChangedRun(dir_path, G, w, env) ==
    IF ~SetConfigAccepts(PresetKw) THEN Handled(<<>>, "TypeError", "set_config", w)
    ELSE DirContentRead(ReadDir(dir_path, TRUE, FALSE, EmptyDict, G, w, env))

\* One call of send_message by on_message.
LoadedText(path, isNone, text, error) ==
    [name |-> "loadedText", path |-> path, isNone |-> isNone, text |-> text, error |-> error]

\* on_message, from the return of ka.load_text (r) on; the bare except
\* answers every exception with the error message.
TextLoaded(path, r) ==
    IF r.exc # ""
    THEN Handled(<<LoadedText(path, TRUE, "", "Problem loading")>>, "", "", r.w)
    ELSE Handled(<<LoadedText(path, r.ret = NoPath, r.ret.bytes, "")>>, "", "", r.w)

\* on_message(msg) with msg['name'] = 'loadText' and msg['path'] = path.
OnMessageRun(path, G, w, env) ==
    IF ~SetConfigAccepts(PresetKw) THEN Handled(<<>>, "TypeError", "set_config", w)
    ELSE TextLoaded(path, LoadFile(path, FALSE, EmptyDict, G, w, env))

\* The widget after a handler has run on an event.
Widget(handler, path, h) ==
    [handler |-> handler, path |-> path, published |-> h.published, exc |-> h.exc, at |-> h.at]

\* The widget before any event.
NoWidget == [handler |-> "", path |-> NoUrl, published |-> <<>>, exc |-> "", at |-> ""]

---------------------------------------------------------------------------
(* The state machine.  A caller picks an operation and its arguments       *)
(* (Call...), the operation runs to completion against what the network    *)
(* does meanwhile (Run...), and the caller takes the result (Return).      *)

VARIABLES
    config,   \* _global_config
    cache,    \* the files of the local hash cache
    remote,   \* the objects held by the remote server
    pc,       \* "idle", "called" or "done"
    call,     \* the operation in progress and its arguments
    last,     \* its result: value, exception and the HTTP events it caused
    snapshot, \* the dict get_config returned to the caller, and which dict it is
    thread,   \* concurrent callers of store_file: where each is, what it returned
    tmpfiles, \* temporary files in the cache directory
    installs, \* how many renames have put a file at a canonical path
    widget    \* the Explore widget: the event it handled last and what it published

\* The state of the concurrent callers and of their files.
conc == <<thread, tmpfiles, installs>>

vars == <<config, cache, remote, pc, call, last, snapshot, conc, widget>>

H(alg, c) == ComputeHash(alg, c)

GoodRemote ==
    {Entry("sha1", H("sha1", "hello"), "hello"), Entry("sha1", H("sha1", "MJ"), "MJ"),
     Entry("sha1", H("sha1", "B"), "B"), Entry("md5", H("md5", "hello"), "hello")}

\* A server holding only a truncated object under the digest of "hello".
BadRemote == {Entry("sha1", H("sha1", "hello"), "hel")}

RemoteInits == {GoodRemote, BadRemote}

\* KACHERY_URL, KACHERY_CHANNEL, KACHERY_PASSWORD are set in the environment.
CredInits == {"set"}

GlobalConfig(cred) ==
    [url |-> cred, channel |-> cred, password |-> cred,
     algorithm |-> "sha1", use_remote |-> FALSE, use_remote_only |-> FALSE]

SubPaths ==
    {<<>>, <<"a.txt">>, <<"a.txt", "x">>, <<"zz">>, <<"sub">>, <<"sub", "b.txt">>,
     <<"raw">>, <<"raw", "x">>}

DirUrl(sub) == Url("sha1dir", H("sha1", "MJ"), "d", sub)

FileUrls == {Url("sha1", H("sha1", "hello"), "", <<"f">>), LocalPath(<<"f">>), LocalPath(<<"nofile">>)}

\* The arguments path and dest of load_file.
LoadArgs ==
    {<<path, dest>> : path \in FileUrls, dest \in BOOLEAN}
    \cup {<<DirUrl(sub), FALSE>> : sub \in SubPaths}
    \cup {<<DirUrl(<<"sub", "b.txt">>), TRUE>>}

LoadKw ==
    {EmptyDict, [use_remote |-> TRUE], [use_remote_only |-> TRUE], [use_remote_only |-> FALSE],
     [use_remote |-> FALSE, use_remote_only |-> FALSE]}

StoreKw ==
    {EmptyDict, [use_remote |-> TRUE], [use_remote_only |-> TRUE],
     [use_remote |-> TRUE, url |-> None], [use_remote |-> TRUE, channel |-> None],
     [use_remote |-> TRUE, password |-> None]}

\* The arguments path, basename, git_annex_mode and the keywords of store_file.
StoreArgs ==
    {<<<<"f">>, None, FALSE, kw>> : kw \in StoreKw}
    \cup {<<<<"f">>, "x.txt", FALSE, EmptyDict>>, <<<<"f">>, None, TRUE, [use_remote |-> TRUE]>>,
          <<<<"nofile">>, None, FALSE, EmptyDict>>}

SetConfigKw ==
    {[use_remote |-> TRUE], [use_remote |-> FALSE], [use_remote_only |-> TRUE],
     [use_remote_only |-> FALSE]}

GetDelays == {NoList, <<>>, <<5>>}

\* What the environment does during one call: how many connections fail
\* before one opens, what the server answers to a check, whether a download
\* is tampered with, what happens to a POST.
Env(fails, resp, tamper, post) ==
    [fails |-> fails, resp |-> resp, tamper |-> tamper, post |-> post, rev |-> FALSE]

GetEnvs == {Env(n, r, FALSE, "ok") : n \in 0..MaxFails, r \in {"truth", "badjson"}}

LoadEnvs ==
    {Env(0, r, FALSE, "ok") : r \in {"truth", "badjson", "fail_err", "fail_noerr"}}
    \cup {Env(0, "truth", TRUE, "ok"), Env(1, "truth", FALSE, "ok"), Env(MaxFails, "truth", FALSE, "ok")}

StoreEnvs ==
    {Env(0, r, FALSE, "ok") : r \in {"truth", "badjson", "fail_err", "fail_noerr"}}
    \cup {Env(0, "truth", FALSE, q) : q \in {"exc", "reject", "nosuccess", "empty"}}
    \cup {Env(1, "truth", FALSE, "ok")}

NotStored == [is |-> FALSE, local |-> FALSE, bytes |-> "", url |-> NoUrl]

Args(op, path, dest, kw, basename, gam, recursive, delays, stored) ==
    [op |-> op, path |-> path, dest |-> dest, kw |-> kw, basename |-> basename, gam |-> gam,
     recursive |-> recursive, delays |-> delays, stored |-> stored]

NoCall == Args("", NoUrl, FALSE, EmptyDict, None, FALSE, FALSE, <<>>, NotStored)

\* loads and walks are the calls of load_file (with their depth) and the
\* walks of _determine_file_hash_from_url the operation made; Finish fills
\* them in.
Result(ret, url, dd, isNone, resp, exc, log) ==
    [ret |-> ret, url |-> url, dd |-> dd, isNone |-> isNone, resp |-> resp, exc |-> exc, log |-> log,
     loads |-> <<>>, walks |-> <<>>]

NoResult == Result(NoPath, NoUrl, EmptyDict, TRUE, EmptyDict, "", <<>>)

World(env) ==
    [cache |-> cache, remote |-> remote, log |-> <<>>, fails |-> env.fails,
     depth |-> 0, loads |-> <<>>, walks |-> <<>>]

Init ==
    /\ config \in {GlobalConfig(cred) : cred \in CredInits}
    /\ cache = {}
    /\ remote \in RemoteInits
    /\ pc = "idle"
    /\ call = NoCall
    /\ last = NoResult
    /\ snapshot = NoSnapshot
    /\ thread = <<>>
    /\ tmpfiles = {}
    /\ installs = 0
    /\ widget = NoWidget

\* set_config: every keyword given (not None) is written to _global_config.
SetConfig ==
    /\ pc = "idle"
    /\ \E kw \in SetConfigKw :
          config' = [k \in DOMAIN config |-> IF k \in DOMAIN kw THEN kw[k] ELSE config[k]]
    /\ UNCHANGED <<cache, remote, pc, call, last, snapshot, conc, widget>>

CallLoadFile ==
    /\ pc = "idle"
    /\ \E a \in LoadArgs, kw \in LoadKw :
          call' = Args("load_file", a[1], a[2], kw, None, FALSE, FALSE, <<>>, NotStored)
    /\ pc' = "called"
    /\ UNCHANGED <<config, cache, remote, last, snapshot, conc, widget>>

CallStoreFile ==
    /\ pc = "idle"
    /\ \E a \in StoreArgs :
          call' = Args("store_file", LocalPath(a[1]), FALSE, a[4], a[2], a[3], FALSE, <<>>, NotStored)
    /\ pc' = "called"
    /\ UNCHANGED <<config, cache, remote, last, snapshot, conc, widget>>

CallStoreObject ==
    /\ pc = "idle"
    /\ \E kw \in {EmptyDict, [use_remote |-> TRUE]} :
          call' = Args("store_object", NoUrl, FALSE, kw, None, FALSE, FALSE, <<>>, NotStored)
    /\ pc' = "called"
    /\ UNCHANGED <<config, cache, remote, last, snapshot, conc, widget>>

ReadDirArgs ==
    {DirUrl(sub) : sub \in SubPaths} \cup {LocalPath(<<"d">>), Url("sha1", H("sha1", "MJ"), "", <<>>)}

CallReadDir ==
    /\ pc = "idle"
    /\ \E path \in ReadDirArgs, recursive \in BOOLEAN, kw \in {EmptyDict, [use_remote |-> TRUE]} :
          call' = Args("read_dir", path, FALSE, kw, None, FALSE, recursive, <<>>, NotStored)
    /\ pc' = "called"
    /\ UNCHANGED <<config, cache, remote, last, snapshot, conc, widget>>

CallHttpGetJson ==
    /\ pc = "idle"
    /\ \E delays \in GetDelays :
          call' = Args("_http_get_json", PlainUrl("sha1", H("sha1", "hello")), FALSE, EmptyDict,
                       None, FALSE, FALSE, delays, NotStored)
    /\ pc' = "called"
    /\ UNCHANGED <<config, cache, remote, last, snapshot, conc, widget>>

\* The caller loads the URL a successful store_file has just returned.
CallLoadStored ==
    /\ pc = "done"
    /\ call.op = "store_file"
    /\ last.exc = ""
    /\ \E dest \in BOOLEAN, kw \in {EmptyDict, [use_remote |-> FALSE, use_remote_only |-> FALSE]} :
          call' = Args("load_file", last.url, dest, kw, None, FALSE, FALSE, <<>>,
                       [is |-> TRUE, local |-> ~LoadConfig(call.kw, config).use_remote_only,
                        bytes |-> LocalFS[call.path.path], url |-> last.url])
    /\ pc' = "called"
    /\ last' = NoResult
    /\ UNCHANGED <<config, cache, remote, snapshot, conc, widget>>

\* The caller repeats, on the unchanged file and under the same config, the
\* store_file that has just returned.
CallStoreAgain ==
    /\ pc = "done"
    /\ call.op = "store_file"
    /\ last.exc = ""
    /\ ~call.stored.is
    /\ call' = [call EXCEPT !.stored =
                    [is |-> TRUE, local |-> ~LoadConfig(call.kw, config).use_remote_only,
                     bytes |-> LocalFS[call.path.path], url |-> last.url]]
    /\ pc' = "called"
    /\ last' = NoResult
    /\ UNCHANGED <<config, cache, remote, snapshot, conc, widget>>

\* The call returns or raises.  Its _load_config has written the keywords
\* into the dict it chose; a dict the caller passed as config= now holds them.
Finish(w, result) ==
    /\ cache' = w.cache
    /\ remote' = w.remote
    /\ last' = [result EXCEPT !.loads = w.loads, !.walks = w.walks]
    /\ pc' = "done"
    /\ config' = GlobalAfterLoadConfig(call.kw, config)
    /\ snapshot' = IF LoadConfigTarget(call.kw) = "kwargs"
                   THEN [snapshot EXCEPT !.val = LoadConfig(call.kw, config)]
                   ELSE snapshot
    /\ UNCHANGED <<call, conc, widget>>

RunLoadFile ==
    /\ pc = "called"
    /\ call.op = "load_file"
    /\ \E env \in LoadEnvs :
          \E r \in {LoadFile(call.path, call.dest, call.kw, config, World(env), env)} :
              Finish(r.w, Result(r.ret, NoUrl, EmptyDict, TRUE, EmptyDict, r.exc, r.w.log))

RunStoreFile ==
    /\ pc = "called"
    /\ call.op = "store_file"
    /\ \E env \in StoreEnvs :
          \E r \in {StoreFile(LocalFS, call.path.path, call.basename, call.gam, call.kw, config,
                                World(env), env)} :
              Finish(r.w, Result(NoPath, r.url, EmptyDict, TRUE, EmptyDict, r.exc, r.w.log))

RunStoreObject ==
    /\ pc = "called"
    /\ call.op = "store_object"
    /\ \E env \in StoreEnvs :
          \E r \in {StoreObject(Manifest, <<"a.txt">>, call.basename, call.kw, config, World(env), env)} :
              Finish(r.w, Result(NoPath, r.url, EmptyDict, TRUE, EmptyDict, r.exc, r.w.log))

RunReadDir ==
    /\ pc = "called"
    /\ call.op = "read_dir"
    /\ \E env \in LoadEnvs :
          \E r \in {ReadDir(call.path, call.recursive, call.gam, call.kw, config, World(env), env)} :
              Finish(r.w, Result(NoPath, NoUrl, r.dd, r.isNone, EmptyDict, r.exc, r.w.log))

RunHttpGetJson ==
    /\ pc = "called"
    /\ call.op = "_http_get_json"
    /\ \E env \in GetEnvs :
          \E r \in {HttpGetJson(FormUrl("check", call.path.protocol, call.path.hash, config),
                                  call.delays, World(env), env)} :
              Finish(r.w, Result(NoPath, NoUrl, EmptyDict, TRUE, r.resp, "", r.w.log))

Return ==
    /\ pc = "done"
    /\ pc' = "idle"
    /\ call' = NoCall
    /\ last' = NoResult
    /\ UNCHANGED <<config, cache, remote, snapshot, conc, widget>>

Next ==
    \/ SetConfig
    \/ CallLoadFile
    \/ CallStoreFile
    \/ CallStoreObject
    \/ CallReadDir
    \/ CallHttpGetJson
    \/ CallLoadStored
    \/ CallStoreAgain
    \/ RunLoadFile
    \/ RunStoreFile
    \/ RunStoreObject
    \/ RunReadDir
    \/ RunHttpGetJson
    \/ Return

Spec == Init /\ [][Next]_vars

---------------------------------------------------------------------------
(* Directories stored and read back: store_dir of a local directory under  *)
(* an arbitrary enumeration order, then read_dir of the URL it returned.   *)

\* A server holding nothing, one holding the file "hello", and one holding
\* a truncated object under the digest of "hello".
DirRemoteInits == {{}, {Entry("sha1", H("sha1", "hello"), "hello")}, BadRemote}

DirKw == {EmptyDict, [use_remote |-> TRUE], [use_remote_only |-> TRUE]}

\* The arguments dirpath and label of store_dir.
StoreDirArgs == {<<<<"d">>, None>>, <<<<"e">>, None>>, <<<<"e">>, "lab">>, <<<<"nodir">>, None>>}

\* The environment env with os.listdir enumerating in reverse.
Reversed(env) == [env EXCEPT !.rev = TRUE]

DirEnvs ==
    {Env(0, "truth", FALSE, "ok"), Env(0, "truth", FALSE, "exc"), Env(0, "fail_noerr", FALSE, "ok"),
     Env(1, "truth", FALSE, "ok"),
     Reversed(Env(0, "truth", FALSE, "ok")), Reversed(Env(0, "truth", FALSE, "exc"))}

InitDir ==
    /\ config \in {GlobalConfig(cred) : cred \in CredInits}
    /\ cache = {}
    /\ remote \in DirRemoteInits
    /\ pc = "idle"
    /\ call = NoCall
    /\ last = NoResult
    /\ snapshot = NoSnapshot
    /\ thread = <<>>
    /\ tmpfiles = {}
    /\ installs = 0
    /\ widget = NoWidget

CallStoreDir ==
    /\ pc = "idle"
    /\ \E a \in StoreDirArgs, kw \in DirKw :
          call' = Args("store_dir", LocalPath(a[1]), FALSE, kw, a[2], FALSE, FALSE, <<>>, NotStored)
    /\ pc' = "called"
    /\ UNCHANGED <<config, cache, remote, last, snapshot, conc, widget>>

RunStoreDir ==
    /\ pc = "called"
    /\ call.op = "store_dir"
    /\ \E env \in DirEnvs :
          \E r \in {StoreDir(call.path.path, call.basename, call.gam, call.kw, config, World(env), env)} :
              Finish(r.w, Result(NoPath, r.url, EmptyDict, TRUE, EmptyDict, r.exc, r.w.log))

\* The caller reads the directory URL a successful store_dir has just returned.
CallReadStored ==
    /\ pc = "done"
    /\ call.op = "store_dir"
    /\ last.exc = ""
    /\ \E kw \in {EmptyDict, [use_remote |-> TRUE]} :
          call' = Args("read_dir", last.url, FALSE, kw, None, FALSE, TRUE, <<>>, NotStored)
    /\ pc' = "called"
    /\ last' = NoResult
    /\ UNCHANGED <<config, cache, remote, snapshot, conc, widget>>

NextDir ==
    \/ SetConfig
    \/ CallStoreDir
    \/ RunStoreDir
    \/ CallReadStored
    \/ RunReadDir
    \/ Return

SpecDir == InitDir /\ [][NextDir]_vars

---------------------------------------------------------------------------
(* Concurrent callers of store_file on one file.  Each caller runs         *)
(* store_file under the process config; copyFileToCache is the three steps *)
(* of its atomicity protocol, which interleave freely between callers.     *)

NCallers == 3

Callers == 1..NCallers

\* The caller before its first step.
Caller(path) == [pc |-> "start", path |-> path, hash |-> NoHash, lost |-> FALSE, url |-> NoUrl]

\* The temporary sibling a caller copies the file to.
Temp(t, alg, bytes) == [owner |-> t, alg |-> alg, bytes |-> bytes]

TempOf(t) == {f \in tmpfiles : f.owner = t}

RenameInstalls_mut(store, alg, hash) == TRUE

\* The rename of a temp over the canonical name succeeds iff no file is
\* there; otherwise it fails and the temp is discarded.
RenameInstalls(store, alg, hash) == ~Has(store, alg, hash)

InitConc ==
    /\ config = GlobalConfig("set")
    /\ cache \in {{}, {Entry("sha1", H("sha1", "hel"), "hel")}}
    /\ remote = {}
    /\ pc = "idle"
    /\ call = NoCall
    /\ last = NoResult
    /\ snapshot = NoSnapshot
    /\ \E path \in DOMAIN LocalFS : thread = [t \in Callers |-> Caller(path)]
    /\ tmpfiles = {}
    /\ installs = 0
    /\ widget = NoWidget

\* hash0 = _compute_local_file_hash(path, ...)
ConcHash(t) ==
    /\ thread[t].pc = "start"
    /\ thread' = [thread EXCEPT ![t].hash = ComputeFileHash(LocalFS, config.algorithm, thread[t].path),
                                ![t].pc = IF StoresLocally(config) THEN "hashed" ELSE "copied"]
    /\ UNCHANGED <<config, cache, remote, pc, call, last, snapshot, tmpfiles, installs, widget>>

\* copyFileToCache, step 2: if the target already exists, skip.
ConcCheck(t) ==
    /\ thread[t].pc = "hashed"
    /\ thread' = [thread EXCEPT ![t].pc = IF Has(cache, config.algorithm, thread[t].hash)
                                           THEN "copied" ELSE "tocopy"]
    /\ UNCHANGED <<config, cache, remote, pc, call, last, snapshot, tmpfiles, installs, widget>>

\* copyFileToCache, step 3: copy src to a temporary sibling.
ConcCopy(t) ==
    /\ thread[t].pc = "tocopy"
    /\ tmpfiles' = tmpfiles \cup {Temp(t, config.algorithm, LocalFS[thread[t].path])}
    /\ thread' = [thread EXCEPT ![t].pc = "torename"]
    /\ UNCHANGED <<config, cache, remote, pc, call, last, snapshot, installs, widget>>

\* copyFileToCache, step 3: rename the temp over the canonical name.
ConcRename(t) ==
    /\ thread[t].pc = "torename"
    /\ \E f \in TempOf(t) :
          IF RenameInstalls(cache, f.alg, thread[t].hash)
          THEN /\ cache' = (cache \ {e \in cache : e.alg = f.alg /\ e.hash = thread[t].hash})
                               \cup {Entry(f.alg, thread[t].hash, f.bytes)}
               /\ installs' = installs + 1
               /\ thread' = [thread EXCEPT ![t].pc = "copied"]
          ELSE /\ UNCHANGED <<cache, installs>>
               /\ thread' = [thread EXCEPT ![t].pc = "copied", ![t].lost = TRUE]
    /\ tmpfiles' = tmpfiles \ TempOf(t)
    /\ UNCHANGED <<config, remote, pc, call, last, snapshot, widget>>

\* return '{}://{}/{}'.format(algorithm, hash0, basename)
ConcReturn(t) ==
    /\ thread[t].pc = "copied"
    /\ thread' = [thread EXCEPT ![t].pc = "done",
                                ![t].url = Url(config.algorithm, thread[t].hash, "",
                                               <<Basename(thread[t].path)>>)]
    /\ UNCHANGED <<config, cache, remote, pc, call, last, snapshot, tmpfiles, installs, widget>>

NextConc ==
    \E t \in Callers :
        \/ ConcHash(t)
        \/ ConcCheck(t)
        \/ ConcCopy(t)
        \/ ConcRename(t)
        \/ ConcReturn(t)

SpecConc == InitConc /\ [][NextConc]_vars

---------------------------------------------------------------------------
(* The config: set_config, get_config, a caller that modifies the dict     *)
(* get_config returned, and operations called with per-call keywords,      *)
(* among them config= with that dict.                                      *)

InitCfg ==
    /\ config \in {GlobalConfig(cred) : cred \in CredInits}
    /\ cache = {}
    /\ remote = GoodRemote
    /\ pc = "idle"
    /\ call = NoCall
    /\ last = NoResult
    /\ snapshot = NoSnapshot
    /\ thread = <<>>
    /\ tmpfiles = {}
    /\ installs = 0
    /\ widget = NoWidget

\* get_config(): return _load_config()
GetConfig ==
    /\ pc = "idle"
    /\ snapshot' = [ref |-> LoadConfigTarget(EmptyDict), val |-> LoadConfig(EmptyDict, config)]
    /\ config' = GlobalAfterLoadConfig(EmptyDict, config)
    /\ UNCHANGED <<cache, remote, pc, call, last, conc, widget>>

\* The caller assigns to a key of the dict get_config returned.
MutateSnapshot ==
    /\ pc = "idle"
    /\ snapshot.ref # "none"
    /\ \E k \in {"use_remote", "use_remote_only"}, v \in BOOLEAN :
          /\ snapshot.val[k] # v
          /\ snapshot' = [snapshot EXCEPT !.val[k] = v]
    /\ config' = IF snapshot.ref = "global" THEN snapshot'.val ELSE config
    /\ UNCHANGED <<cache, remote, pc, call, last, conc, widget>>

CfgUrl == Url("sha1", H("sha1", "hello"), "", <<"f">>)

\* load_file(path, use_remote=..., ...) with keywords only.
CallWithOverrides ==
    /\ pc = "idle"
    /\ \E kw \in LoadKw :
          call' = Args("load_file", CfgUrl, FALSE, kw, None, FALSE, FALSE, <<>>, NotStored)
    /\ pc' = "called"
    /\ UNCHANGED <<config, cache, remote, last, snapshot, conc, widget>>

\* load_file(path, config=c, ...) with the dict get_config returned.
CallWithConfig ==
    /\ pc = "idle"
    /\ snapshot.ref # "none"
    /\ \E kw \in {[config |-> snapshot.val], [config |-> snapshot.val, use_remote |-> TRUE]} :
          call' = Args("load_file", CfgUrl, FALSE, kw, None, FALSE, FALSE, <<>>, NotStored)
    /\ pc' = "called"
    /\ UNCHANGED <<config, cache, remote, last, snapshot, conc, widget>>

NextCfg ==
    \/ SetConfig
    \/ GetConfig
    \/ MutateSnapshot
    \/ CallWithOverrides
    \/ CallWithConfig
    \/ RunLoadFile
    \/ Return

SpecCfg == InitCfg /\ [][NextCfg]_vars

---------------------------------------------------------------------------
(* The Explore widget in a process: events from the JavaScript side are     *)
(* handled one at a time, and set_config calls of the process may come      *)
(* between them.                                                            *)

InitWidget ==
    /\ config \in {GlobalConfig(cred) : cred \in CredInits}
    /\ cache \in {{}, {Entry("sha1", H("sha1", "MJ"), "MJ")}}
    /\ remote \in RemoteInits
    /\ pc = "idle"
    /\ call = NoCall
    /\ last = NoResult
    /\ snapshot = NoSnapshot
    /\ thread = <<>>
    /\ tmpfiles = {}
    /\ installs = 0
    /\ widget = NoWidget

\* state['dir_path'] of an event.
DirPaths == ReadDirArgs

\* The handler ends: what it stored in the cache stays, what it published is
\* what the JavaScript side has received.
Handle(handler, path, h) ==
    /\ widget' = Widget(handler, path, h)
    /\ cache' = h.w.cache
    /\ remote' = h.w.remote
    /\ UNCHANGED <<config, pc, call, last, snapshot, conc>>

JavascriptStateChanged ==
    /\ pc = "idle"
    /\ \E dir_path \in DirPaths, env \in LoadEnvs :
          \E h \in {JavascriptStateChangedRun(dir_path, config, World(env), env)} :
              Handle("javascript_state_changed", dir_path, h)

OnMessage ==
    /\ pc = "idle"
    /\ \E path \in FileUrls, env \in LoadEnvs :
          \E h \in {OnMessageRun(path, config, World(env), env)} :
              Handle("on_message", path, h)

NextWidget ==
    \/ SetConfig
    \/ JavascriptStateChanged
    \/ OnMessage

SpecWidget == InitWidget /\ [][NextWidget]_vars

TypeOK ==
    /\ pc \in {"idle", "called", "done"}
    /\ DOMAIN config = ConfigKeys
    /\ (pc = "idle") = (call = NoCall)
    /\ pc # "done" => last = NoResult

---------------------------------------------------------------------------
(* Properties                                                              *)

\* The config the call in progress runs under.
Cfg == LoadConfig(call.kw, config)

Done(op) == pc = "done" /\ call.op = op

IsAttempt(e) == e.ev = "GET" /\ e.what = "check"
IsDownload(e) == e.ev = "GET" /\ e.what = "download"
IsSleep(e) == e.ev = "SLEEP"
IsPost(e) == e.ev = "POST"
IsResp(e) == e.ev = "RESP"
IsRequest(e) == e.ev \in {"GET", "POST"}

Count(log, Test(_)) == Len(SelectSeq(log, Test))
Slept(log) == [i \in 1..Count(log, IsSleep) |-> SelectSeq(log, IsSleep)[i].n]

RemoteDisabled(c) == ~c.use_remote /\ ~c.use_remote_only

\* C1 (as amended): when store_file ran with use_remote_only false and
\* returned a URL, a load_file of that URL with remote access disabled
\* returns a path, in the cache or copied from it, holding the stored bytes.
C1_StoreThenLoadLocal ==
    (Done("load_file") /\ call.stored.is /\ call.stored.local /\ RemoteDisabled(Cfg)) =>
        /\ last.exc = ""
        /\ last.ret # NoPath
        /\ last.ret.where = (IF call.dest THEN "dest" ELSE "cache")
        /\ last.ret.bytes = call.stored.bytes

C1_Witness ==
    /\ Done("load_file") /\ call.stored.is /\ call.stored.local /\ RemoteDisabled(Cfg)
    /\ last.ret.where = "cache"
    /\ last.ret.bytes = "hello"

\* C1 (as stated): under every config under which store_file returned a URL,
\* a load_file of that URL with remote access disabled returns a path.
C1_StoreThenLoadAnyConfig ==
    (Done("load_file") /\ call.stored.is /\ RemoteDisabled(Cfg)) =>
        /\ last.exc = ""
        /\ last.ret # NoPath

\* C6: _http_get_json with the default retry_delays makes at most three
\* attempts, sleeping 0.2s and then 0.5s between them; it retries only an
\* attempt whose connection failed; it never raises, and returns
\* {success: false, error} when every attempt failed or when the JSON of an
\* opened response cannot be decoded.  With a list of k delays it makes at
\* most k + 1 attempts, so the call terminates.
C6_RetryPolicy ==
    Done("_http_get_json") =>
        LET log    == last.log
            n      == Count(log, IsAttempt)
            delays == IF call.delays = NoList THEN <<2, 5>> ELSE call.delays
        IN  /\ last.exc = ""
            /\ n \in 1..(Len(delays) + 1)
            /\ call.delays = NoList => n <= 3
            /\ Slept(log) = SubSeq(delays, 1, n - 1)
            /\ Len(log) = 2 * n
            /\ \A i \in 1..n :
                  /\ IsAttempt(log[2 * i - 1])
                  /\ i < n => (IsSleep(log[2 * i]) /\ log[2 * i - 1].n = 0)
            /\ IsResp(log[2 * n])
            /\ "success" \in DOMAIN last.resp
            /\ log[2 * n - 1].n = 0 =>
                  /\ n = Len(delays) + 1
                  /\ last.resp = [success |-> FALSE, error |-> "Unable to open url"]
            /\ log[2 * n].what = "badjson" =>
                  /\ log[2 * n - 1].n = 1
                  /\ last.resp = [success |-> FALSE, error |-> "Unable to load json from url"]

C6_Witness ==
    /\ Done("_http_get_json") /\ call.delays = NoList
    /\ Count(last.log, IsAttempt) = 3
    /\ Slept(last.log) = <<2, 5>>
    /\ last.resp = [success |-> FALSE, error |-> "Unable to open url"]

\* A store that reaches the upload step.
UploadAttempted ==
    /\ pc = "done"
    /\ \/ call.op = "store_file" /\ call.path.path \in DOMAIN LocalFS /\ ~call.gam
       \/ call.op = "store_object"
    /\ Cfg.use_remote \/ Cfg.use_remote_only

ConfigErrors ==
    {"Missing url config parameter", "Missing channel config parameter",
     "Missing password config parameter"}

\* C8: an upload attempted while url, channel or password is missing fails
\* with a configuration error, and no HTTP request is issued.
C8_MissingConfigFailsFast ==
    (UploadAttempted /\ (Cfg.url = None \/ Cfg.channel = None \/ Cfg.password = None)) =>
        /\ last.exc \in ConfigErrors
        /\ last.url = NoUrl
        /\ last.log = <<>>

C8_Witness ==
    /\ UploadAttempted
    /\ Cfg.url # None /\ Cfg.channel # None /\ Cfg.password = None
    /\ last.exc = "Missing password config parameter"
    /\ last.log = <<>>

\* The bytes a store uploads.
StoredBytes == IF call.op = "store_object" THEN Dumps(Manifest, <<"a.txt">>) ELSE LocalFS[call.path.path]

\* What the first response of a call (its presence check's) reported.
CheckResp(log) == SelectSeq(log, IsResp)[1]

\* C2: in _upload_local_file a presence check is issued before any POST; a
\* check that reports the object found at the local file's size ends the
\* upload successfully without a POST; found at another size fails it
\* without a POST; otherwise exactly one POST is issued, and a response
\* without success=true fails the upload.
C2_UploadProtocol ==
    (UploadAttempted /\ MissingConfig(Cfg) = "") =>
        /\ last.log # <<>>
        /\ IsAttempt(last.log[1])
        /\ \A i \in 1..Len(last.log) :
              IsPost(last.log[i]) => \E j \in 1..(i - 1) : IsAttempt(last.log[j])
        /\ (CheckResp(last.log).what = "found" /\ CheckResp(last.log).n = Size(StoredBytes)) =>
              (Count(last.log, IsPost) = 0 /\ last.exc = "")
        /\ (CheckResp(last.log).what = "found" /\ CheckResp(last.log).n # Size(StoredBytes)) =>
              (Count(last.log, IsPost) = 0 /\ last.exc # "")
        /\ CheckResp(last.log).what # "found" =>
              /\ Count(last.log, IsPost) = 1
              /\ last.log[Len(last.log)].what # "ok" => last.exc # ""

\* The step in which load_file of a content URL runs.
LoadsHashUrl ==
    /\ pc = "called"
    /\ call.op = "load_file"
    /\ IsHashUrl(call.path)
    /\ pc' = "done"

\* The files entry a sub-path of the stored directory ends on, if it does.
LeafAt(sub) ==
    IF sub = <<"a.txt">> THEN LeafA
    ELSE IF sub = <<"sub", "b.txt">> THEN LeafB
    ELSE EmptyDict

\* The digests a files entry carries.
Digests(entry) == {<<alg, entry[alg]>> : alg \in DOMAIN entry \ {"size"}}

ManifestCached(url, c) == Has(c, ParseHashUrl(url).algorithm, url.hash)

\* The content a URL names is in the cache c: the object itself, or for a
\* directory URL its manifest and the leaf the sub-path ends on, under every
\* digest the leaf carries.
Present(url, c) ==
    IF ~EndsWithDir(url.protocol) THEN Has(c, ParseHashUrl(url).algorithm, url.hash)
    ELSE /\ ManifestCached(url, c)
         /\ LeafAt(url.path) # EmptyDict
         /\ \A d \in Digests(LeafAt(url.path)) : Has(c, d[1], d[2])

\* The content a URL names is not in the cache c under any digest.
Missing(url, c) ==
    IF ~EndsWithDir(url.protocol) THEN ~Has(c, ParseHashUrl(url).algorithm, url.hash)
    ELSE \/ ~ManifestCached(url, c)
         \/ \A d \in Digests(LeafAt(url.path)) : ~Has(c, d[1], d[2])

\* C3: when use_remote_only is false and the content URL's digest is in the
\* local cache, load_file returns the cached path (dest after copying) and
\* issues no HTTP request, whatever use_remote is.
C3_CacheHitNoHttp ==
    [][(LoadsHashUrl /\ ~Cfg.use_remote_only /\ Present(call.path, cache)) =>
          /\ last'.exc = ""
          /\ last'.ret # NoPath
          /\ last'.ret.where = (IF call.dest THEN "dest" ELSE "cache")
          /\ last'.log = <<>>]_vars

\* C4: when use_remote and use_remote_only are both false, load_file of a
\* content URL that is not in the local cache returns absent without raising,
\* issues no HTTP request and leaves the cache unchanged.
C4_LocalMissIsAbsent ==
    [][(LoadsHashUrl /\ RemoteDisabled(Cfg) /\ Missing(call.path, cache)) =>
          /\ last'.exc = ""
          /\ last'.ret = NoPath
          /\ last'.log = <<>>
          /\ cache' = cache]_vars

Found(e) == IsResp(e) /\ e.what = "found"

\* C5: when remote access is enabled and the local lookup misses or is
\* skipped, load_file of a file URL downloads if and only if the check that
\* precedes returned found; it downloads at most once, also when the check
\* was retried; in every other case it returns absent.
C5_DownloadIffFound ==
    [][(/\ LoadsHashUrl
        /\ ~EndsWithDir(call.path.protocol)
        /\ Cfg.use_remote \/ Cfg.use_remote_only
        /\ Cfg.use_remote_only \/ Missing(call.path, cache)) =>
          /\ Count(last'.log, IsDownload) <= 1
          /\ (Count(last'.log, IsDownload) = 1) <=> (Count(last'.log, Found) = 1)
          /\ \A i \in 1..Len(last'.log) :
                IsDownload(last'.log[i]) => (i > 1 /\ Found(last'.log[i - 1]))
          /\ Count(last'.log, IsDownload) = 0 => (last'.ret = NoPath /\ last'.exc = "")]_vars

\* The answers of a check with success=false.
Refusals == {"openfail", "badjson", "fail_err", "fail_noerr"}

\* C7: when the check that load_file of a file URL makes is answered with
\* success=false, with or without the error field, load_file returns absent
\* without raising; when it is answered with success=true and found=true,
\* the download of that object, at the size reported, follows.
C7_CheckFailureIsNotFound ==
    (Done("load_file") /\ IsHashUrl(call.path) /\ ~EndsWithDir(call.path.protocol)) =>
        \A i \in 1..Len(last.log) :
            /\ (IsResp(last.log[i]) /\ last.log[i].what \in Refusals) =>
                  (last.exc = "" /\ last.ret = NoPath)
            /\ Found(last.log[i]) =>
                  /\ i < Len(last.log)
                  /\ IsDownload(last.log[i + 1])
                  /\ last.log[i + 1].alg = last.log[i].alg
                  /\ last.log[i + 1].hash = last.log[i].hash
                  /\ last.log[i + 1].n = last.log[i].n

\* C9: resolving a directory URL whose sub-path ends on a files entry that
\* carries a sha1 and an md5 digest yields the sha1 digest: every lookup,
\* check and download of the leaf is by sha1.
C9_LeafPrefersSha1 ==
    (Done("load_file") /\ call.path = DirUrl(<<"a.txt">>)) =>
        /\ \A i \in 1..Len(last.log) :
              last.log[i].hash \in {NoHash, H("sha1", "MJ"), LeafA.sha1}
        /\ last.ret # NoPath => (last.ret.alg = "sha1" /\ last.ret.hash = LeafA.sha1)

\* The manifest of the directory URL was read by the call that is done.
ManifestRead ==
    /\ pc = "done"
    /\ IsHashUrl(call.path)
    /\ EndsWithDir(call.path.protocol)
    /\ ~config.use_remote_only
    /\ ~Cfg.use_remote_only
    /\ ManifestCached(call.path, cache)

\* C10: a sub-path that goes through a file fails with 'Not a directory',
\* one that names neither a directory nor a file is absent, for load_file of
\* a directory URL and for read_dir alike.
C10_WalkOutcomes ==
    /\ (ManifestRead /\ call.op = "load_file") =>
          /\ call.path.path = <<"a.txt", "x">> => last.exc = "Not a directory"
          /\ call.path.path = <<"zz">> => (last.exc = "" /\ last.ret = NoPath)
    /\ (ManifestRead /\ call.op = "read_dir") =>
          /\ call.path.path = <<"a.txt", "x">> => last.exc = "Not a directory"
          /\ call.path.path = <<"zz">> => (last.exc = "" /\ last.isNone)

\* What load_file of the call in progress does under the environment env when
\* the per-call overrides are the process config instead.
AsProcessConfig(env) ==
    LoadFile(call.path, call.dest, EmptyDict, LoadConfig(call.kw, config), World(env), env)

\* C11: load_file of a directory URL called with per-call overrides behaves
\* as the same call made with those values as the process config: what it
\* returns or raises, the HTTP requests it makes and the cache it leaves are
\* those of that call under some behaviour of the network.
C11_OverridesSurviveNestedFetch ==
    [][(LoadsHashUrl /\ EndsWithDir(call.path.protocol)) =>
          \E env \in LoadEnvs :
              /\ last'.ret = AsProcessConfig(env).ret
              /\ last'.exc = AsProcessConfig(env).exc
              /\ last'.log = AsProcessConfig(env).w.log
              /\ cache' = AsProcessConfig(env).w.cache]_vars

\* What store_dir of the call in progress does under the environment env.
StoreDirUnder(env) ==
    StoreDir(call.path.path, call.basename, call.gam, call.kw, config, World(env), env)

\* C12: for a fixed directory tree store_dir returns the same URL on every
\* run: the URL a run returns is the one every other successful run of the
\* same call returns, whatever the order in which os.listdir enumerates.
C12_ManifestDeterminism ==
    [][(pc = "called" /\ call.op = "store_dir" /\ pc' = "done" /\ last'.exc = "") =>
          \A env \in DirEnvs :
              StoreDirUnder(env).exc = "" => StoreDirUnder(env).url = last'.url]_vars

\* The step in which the repeated store_file runs and returns a URL.
StoresAgain ==
    /\ pc = "called"
    /\ call.op = "store_file"
    /\ call.stored.is
    /\ pc' = "done"
    /\ last'.exc = ""

\* C13: store_file called a second time on unchanged content under the same
\* config returns the URL the first call returned and leaves the local cache
\* as the first call left it.
C13_StoreIdempotent ==
    [][StoresAgain => (last'.url = call.stored.url /\ cache' = cache)]_vars

C13_Witness ==
    /\ Done("store_file")
    /\ call.stored.is
    /\ call.stored.local
    /\ last.exc = ""
    /\ last.url = call.stored.url
    /\ Has(cache, "sha1", H("sha1", "hello"))

AllReturned == thread # <<>> /\ \A t \in Callers : thread[t].pc = "done"

Ran(env) == LoadFile(call.path, call.dest, call.kw, config, World(env), env)

\* The step is the call's run under env.
RanUnder(env) ==
    /\ last'.ret = Ran(env).ret
    /\ last'.exc = Ran(env).exc
    /\ last'.log = Ran(env).w.log
    /\ cache' = Ran(env).w.cache

\* The body the server sends for a download under env.
Body(e, env) ==
    IF ~Has(remote, e.alg, e.hash) THEN ""
    ELSE IF env.tamper THEN Tamper(BytesAt(remote, e.alg, e.hash))
    ELSE BytesAt(remote, e.alg, e.hash)

\* The download e received bytes of another digest or size than expected.
Mismatched(e, env) ==
    IsDownload(e) /\ (ComputeHash(e.alg, Body(e, env)) # e.hash \/ Size(Body(e, env)) # e.n)

SetConfigStep ==
    /\ pc = "idle"
    /\ pc' = "idle"
    /\ snapshot' = snapshot
    /\ \E kw \in SetConfigKw :
          config' = [k \in DOMAIN config |-> IF k \in DOMAIN kw THEN kw[k] ELSE config[k]]

\* C16: only set_config changes the process-wide config: an operation called
\* with per-call overrides (keywords, or config= with a dict of the caller)
\* leaves it as it was, get_config returns a dict equal to it, and modifying
\* that dict leaves it as it was, so later operations run under
\* the process config and their own keywords.
C16_ConfigLayering ==
    [][/\ config' # config => SetConfigStep
       /\ (pc = "idle" /\ pc' = "idle" /\ snapshot.ref = "none" /\ snapshot' # snapshot) =>
              (snapshot'.val = config /\ config' = config)
       /\ (pc = "called" /\ pc' = "done" /\ "config" \notin DOMAIN call.kw) =>
              \E env \in LoadEnvs :
                  /\ last'.ret = LoadConfigured(call.path, call.dest, LoadConfig(call.kw, config'),
                                                config', World(env), env).ret
                  /\ last'.log = LoadConfigured(call.path, call.dest, LoadConfig(call.kw, config'),
                                                config', World(env), env).w.log]_vars

\* A load_file with overrides has run while the caller holds a dict from
\* get_config that it has modified, and the process config is neither.
C16_Witness ==
    /\ Done("load_file")
    /\ call.kw # EmptyDict
    /\ LoadConfig(call.kw, config) # config
    /\ snapshot.ref = "copy"
    /\ snapshot.val # config
    /\ snapshot.val.use_remote_only
    /\ ~config.use_remote_only

StoresFile == pc = "called" /\ call.op = "store_file" /\ pc' = "done"

Readable == call.path.path \in DOMAIN LocalFS

\* The local cache after the step holds the stored file and all it held.
Ingested ==
    /\ cache \subseteq cache'
    /\ Has(cache', Cfg.algorithm, ComputeHash(Cfg.algorithm, StoredBytes))
    /\ BytesAt(cache', Cfg.algorithm, ComputeHash(Cfg.algorithm, StoredBytes)) = StoredBytes

\* '<algorithm>://<hash>/<basename or the file's name>'
StoreUrl ==
    Url(Cfg.algorithm, ComputeHash(Cfg.algorithm, StoredBytes), "",
        <<IF call.basename = None THEN Basename(call.path.path) ELSE call.basename>>)

\* C17 as stated: store_file ingests into the local cache iff use_remote_only
\* is false, issues an HTTP request iff (use_remote or use_remote_only) and not
\* git_annex_mode, and on success returns
\* '<algorithm>://<hash>/<basename or the file's name>' (here for a file whose
\* digest can be computed).
C17_StoreFootprintAsStated ==
    [][(StoresFile /\ Readable) =>
          /\ IF Cfg.use_remote_only THEN cache' = cache ELSE Ingested
          /\ (last'.log # <<>>) <=> ((Cfg.use_remote \/ Cfg.use_remote_only) /\ ~call.gam)
          /\ last'.exc = "" => last'.url = StoreUrl]_vars

\* C17, amended: for a file whose digest can be computed, store_file ingests
\* into the local cache iff use_remote_only is false, issues an HTTP request
\* iff (use_remote or use_remote_only), not git_annex_mode, and url, channel
\* and password are all configured, and on success returns
\* '<algorithm>://<hash>/<basename or the file's name>'; for any other path it
\* raises with the cache unchanged and no request.
C17_StoreFootprint ==
    [][StoresFile =>
          IF Readable
          THEN /\ IF Cfg.use_remote_only THEN cache' = cache ELSE Ingested
               /\ (last'.log # <<>>) <=>
                      /\ Cfg.use_remote \/ Cfg.use_remote_only
                      /\ ~call.gam
                      /\ MissingConfig(Cfg) = ""
               /\ last'.exc = "" => last'.url = StoreUrl
          ELSE /\ last'.exc # ""
               /\ cache' = cache
               /\ last'.log = <<>>]_vars

\* A store_file with the remote enabled and no password has run: the file is
\* in the cache and no request was issued.
C17_Witness ==
    /\ Done("store_file")
    /\ Cfg.use_remote
    /\ ~call.gam
    /\ MissingConfig(Cfg) = "Missing password config parameter"
    /\ last.log = <<>>
    /\ Has(cache, "sha1", H("sha1", "hello"))

\* The subtree of the stored directory a sub-path ends on, as read_dir is to
\* return it: nested manifests expanded, or every dirs entry an empty mapping.
Subtree(sub, recursive) ==
    CASE sub = <<>> /\ recursive  -> Manifest
      [] sub = <<>> /\ ~recursive -> [dirs  |-> [n \in {"sub", "raw"} |-> EmptyDict],
                                      files |-> [n \in {"a.txt"} |-> LeafA]]
      [] sub = <<"sub">>          -> SubManifest
      [] OTHER                    -> EmptyDict

\* C18: read_dir of a directory URL whose sub-path ends on a subtree returns
\* that subtree, with every dirs entry an empty mapping when recursive is
\* false and the nested manifests expanded when it is true; a sub-path that
\* ends on or passes through a directory recorded as an empty mapping does
\* not make read_dir raise.
C18_ReadDirSubtree ==
    (ManifestRead /\ call.op = "read_dir") =>
        /\ call.path.path \in {<<>>, <<"sub">>, <<"raw">>} =>
              /\ last.exc = ""
              /\ ~last.isNone
              /\ last.dd = Subtree(call.path.path, call.recursive)
        /\ call.path.path = <<"raw", "x">> => last.exc = ""

\* store_object: store_text, and through it store_file, of the serialisation.
StoresObject == pc = "called" /\ call.op = "store_object" /\ pc' = "done"

\* C19: store_file ingests into the local cache before any remote
\* interaction and an upload step that fails (missing config, size conflict
\* reported by the check, failed POST) is not rolled back: when store_file of
\* a file whose digest can be computed has issued a request or raises, with
\* use_remote_only false, the file is at its canonical cache path; and no
\* step ever removes a cache entry.
C19_IngestSurvivesUploadFailure ==
    [][/\ (/\ StoresFile \/ StoresObject
           /\ call.op = "store_file" => Readable
           /\ ~Cfg.use_remote_only
           /\ last'.exc # "" \/ last'.log # <<>>) => Ingested
       /\ cache \subseteq cache']_vars

\* A store_file whose POST failed has raised and the file is in the cache.
C19_Witness ==
    /\ Done("store_object")
    /\ ~Cfg.use_remote_only
    /\ last.exc # ""
    /\ Count(last.log, IsPost) = 1
    /\ Has(cache, "sha1", H("sha1", StoredBytes))
    /\ ~Has(remote, "sha1", H("sha1", StoredBytes))

RECURSIVE LeafDigests(_)
\* The digests of the files a manifest lists, at every depth.
LeafDigests(m) ==
    {m.files[n].sha1 : n \in DOMAIN m.files}
        \cup UNION {LeafDigests(m.dirs[n]) : n \in DOMAIN m.dirs}

\* The serialisations of the manifests store_dir produces of d and of e.
ManifestTexts == {"MD", "Epq", "Eqp"}

\* Every file digest the manifest lists is in the store.
Complete(store, text) == \A h \in LeafDigests(ParseJson(text)) : Has(store, "sha1", h)

Holds(store, text) == Has(store, "sha1", H("sha1", text))

\* C20 as stated: in every reachable state in which a manifest produced by
\* store_dir is present in a store (the local cache, the remote), every file
\* digest it lists is present in that same store.
C20_ManifestImpliesLeavesAsStated ==
    \A text \in ManifestTexts :
        /\ Holds(cache, text) => Complete(cache, text)
        /\ Holds(remote, text) => Complete(remote, text)

StoresDir == pc = "called" /\ call.op = "store_dir" /\ ~call.gam /\ pc' = "done"

\* C20, amended: store_dir stores leaves before the manifest: a manifest that
\* a store_dir (not in git-annex mode) has put into a store is there together
\* with every file digest it lists, whether store_dir returns or fails
\* part-way, and a store_dir that returns a URL has put the manifest into
\* every store its config names.
C20_LeavesBeforeManifest ==
    [][StoresDir =>
          /\ \A text \in ManifestTexts :
                /\ (Holds(cache', text) /\ ~Holds(cache, text)) => Complete(cache', text)
                /\ (Holds(remote', text) /\ ~Holds(remote, text)) => Complete(remote', text)
          /\ (last'.exc = "" /\ last'.url # NoUrl) =>
                /\ ~Cfg.use_remote_only => (Holds(cache', last'.url.hash[2]) /\ Complete(cache', last'.url.hash[2]))
                /\ (Cfg.use_remote \/ Cfg.use_remote_only) =>
                       (Holds(remote', last'.url.hash[2]) /\ Complete(remote', last'.url.hash[2]))]_vars

\* A store_dir with use_remote has uploaded the files of d and then the
\* manifest, and both stores hold the manifest and its files.
C20_Witness ==
    /\ Done("store_dir")
    /\ Cfg.use_remote
    /\ last.exc = ""
    /\ Count(last.log, IsPost) >= 2
    /\ Holds(cache, "MD") /\ Complete(cache, "MD")
    /\ Holds(remote, "MD") /\ Complete(remote, "MD")

\* A URL of the form '<alg>://<hash>'.
IsPlainFileUrl(u) == u.protocol \in {"sha1", "md5"} /\ u.label = "" /\ u.path = <<>>

\* C21: the recursion load -> resolve -> load is bounded.  The only nested
\* calls of load_file are made while a directory URL is resolved, they load
\* the plain file URL '<alg>://<hash>' of the manifest blob, and that load
\* makes no nested call, so no call of load_file is deeper than one below the
\* caller's; a load_file makes at most two nested calls and two walks (one
\* resolution for the local lookup, one for the remote check) and then
\* returns or raises; the walk loop runs at most once per sub-path component.
C21_RecursionBounded ==
    Done("load_file") =>
          /\ last.loads # <<>>
          /\ last.loads[1] = [depth |-> 1, path |-> call.path]
          /\ \A i \in 2..Len(last.loads) :
                /\ last.loads[i].depth = 2
                /\ IsPlainFileUrl(last.loads[i].path)
                /\ last.loads[i].path.protocol = ParseHashUrl(call.path).algorithm
                /\ last.loads[i].path.hash = call.path.hash
          /\ Len(last.loads) > 1 => (IsHashUrl(call.path) /\ EndsWithDir(call.path.protocol))
          /\ Len(last.loads) <= 3
          /\ Len(last.walks) <= 2
          /\ \A j \in 1..Len(last.walks) :
                /\ last.walks[j].n <= last.walks[j].len
                /\ last.walks[j].len = Len(call.path.path)

\* A load_file of a directory URL with a sub-path of two components has
\* resolved it twice (for the local lookup and for the remote check), each
\* time with a nested load of the manifest and a walk of two steps.
C21_Witness ==
    /\ Done("load_file")
    /\ EndsWithDir(call.path.protocol)
    /\ Len(call.path.path) = 2
    /\ Len(last.loads) = 3
    /\ Len(last.walks) = 2
    /\ \A j \in 1..2 : last.walks[j].n = 2

EventHandled == widget.handler = "javascript_state_changed"

\* C22: every javascript_state_changed event publishes status 'running',
\* then dir_content=None, then dir_content set to the result of read_dir,
\* then status 'finished', in that order; 'finished' is never published
\* before the new dir_content; an event whose read_dir does not fail ends
\* with status 'finished'.
C22_ExploreEventProtocol ==
    EventHandled =>
        /\ Len(widget.published) >= 2
        /\ widget.published[1] = SetStatus("running")
        /\ widget.published[2] = SetDirContent(TRUE, EmptyDict)
        /\ \A i \in 1..Len(widget.published) :
              widget.published[i] = SetStatus("finished") =>
                  (i = 4 /\ widget.published[3].key = "dir_content")
        /\ widget.at # "read_dir" =>
              (Len(widget.published) = 4 /\ widget.published[4] = SetStatus("finished"))

====
